---- MODULE Spec2Model ----
(***************************************************************************)
(* Factory production line simulation (simulation.py): a Conveyor fed by   *)
(* a RandomProducer and drained by a Consumer, one Workstation per belt    *)
(* position arbitrating the accesses of a top and a bottom Worker, and the *)
(* Simulator that drives them tick by tick.                                *)
(*                                                                         *)
(* Belt positions are 0-based as in the source; the belt itself is the     *)
(* deque `items`, kept as a sequence, so position i is items[i + 1].       *)
(***************************************************************************)
EXTENDS Integers, Sequences, FiniteSets, TLC

\* ------------------------------------------------------------------ Item
A == "A"
B == "B"
PRODUCT == "P"
EMPTY == "_"
Item == {A, B, PRODUCT, EMPTY}
\* Python's None, the busy signal of Workstation.take
None == "None"

\* ---------------------------------------------------------- configuration
\* Conveyor.__init__(length=3), the length every Simulator uses
len == 3
\* Worker.__init__(assembly_time=3)
assembly_time == 3
\* the largest argument of Simulator.run explored
MaxTicks == 9
\* the largest number of calls a unit harness makes
MaxOps == 4

Pos == 0 .. (len - 1)
Sides == {"top", "bottom"}
Workers == Sides \X Pos

VARIABLES
    items,            \* Conveyor.items
    next_item,        \* RandomProducer.next_item
    counter,          \* Consumer.counter
    output,           \* Consumer.output
    busy,             \* Workstation.busy, per position
    hands,            \* Worker.hands, per worker
    steps_remaining,  \* Worker.steps_remaining, per worker
    ticks,            \* the argument of Simulator.run
    i,                \* the loop variable of Simulator.run: ticks completed
    pc,               \* position inside Simulator.tick
    k,                \* station index of the loop Simulator.tick is in
    last,             \* history: what the latest call did
    prev,             \* history: what the call before it did
    acc,              \* history: per station, accesses granted in this tick
    second_at,        \* history: per worker, tick of its latest second component
    put_at,           \* history: per worker, tick of the first put since second_at
    fed,              \* history (unit harness): items the producer has supplied
    clean,            \* history (unit harness): no take or put since construction
    nops,             \* history (unit harness): calls made
    taken,            \* history (unit harness): per station, the item its take
                      \*   granted in this tick returned
    supplied,         \* history (simulation): per item, how many the producer gave
    due,              \* history (simulation): tick and station of each put of a
                      \*   Product that succeeded
    script_at         \* endless biased run: draws made, counted round the cycle

vars == <<items, next_item, counter, output, busy, hands, steps_remaining,
          ticks, i, pc, k, last, prev, acc, second_at, put_at, fed, clean, nops,
          taken, supplied, due, script_at>>

\* ------------------------------------------------------------ list helpers
\* x in list
In(x, s) == \E j \in 1 .. Len(s) : s[j] = x

\* list.remove(x): drops the first occurrence of x
RECURSIVE Remove(_, _)
Remove(s, x) ==
    IF s = <<>> THEN <<>>
    ELSE IF Head(s) = x THEN Tail(s)
    ELSE <<Head(s)>> \o Remove(Tail(s), x)

\* number of occurrences of x in a list
RECURSIVE Count(_, _)
Count(s, x) ==
    IF s = <<>> THEN 0
    ELSE (IF Head(s) = x THEN 1 ELSE 0) + Count(Tail(s), x)

\* --------------------------------------------------------------- Conveyor
\* (mutant) tick that inserts the new item without popping the last one
ConveyorTick_NoPop(its, given) ==
    [consumed |-> its[Len(its)],
     items    |-> <<given>> \o its]

\* (mutant) tick that moves the belt the wrong way
ConveyorTick_Backwards(its, given) ==
    [consumed |-> its[1],
     items    |-> Tail(its) \o <<given>>]

\* Conveyor.tick: items.pop() goes to the consumer, producer.next() is
\* inserted at position 0.
ConveyorTick(its, given) ==
    [consumed |-> its[Len(its)],
     items    |-> <<given>> \o SubSeq(its, 1, Len(its) - 1)]

\* Conveyor.peek(p)
ConveyorPeek(its, p) == its[p + 1]

\* (mutant) take that returns the item and leaves it on the belt
ConveyorTake_LeavesItem(its, p) ==
    [ret   |-> its[p + 1],
     items |-> its]

\* Conveyor.take(p)
ConveyorTake(its, p) ==
    [ret   |-> its[p + 1],
     items |-> [its EXCEPT ![p + 1] = EMPTY]]

\* (mutant) put that does not check the slot
ConveyorPut_Overwrites(its, p, item) ==
    [ret |-> TRUE, items |-> [its EXCEPT ![p + 1] = item]]

\* Conveyor.put(p, item)
ConveyorPut(its, p, item) ==
    IF its[p + 1] # EMPTY
    THEN [ret |-> FALSE, items |-> its]
    ELSE [ret |-> TRUE,  items |-> [its EXCEPT ![p + 1] = item]]

\* Consumer.consume(item), on the Counter
Consume(cnt, item) == [cnt EXCEPT ![item] = @ + 1]

\* ------------------------------------------------------------ Workstation
\* (mutant) tick that leaves the busy flag as it is
WorkstationTick_KeepsBusy(b) == b

\* Workstation.tick
WorkstationTick(b) == FALSE

\* Workstation.peek
WorkstationPeek(its, p) == ConveyorPeek(its, p)

\* (mutant) take that forgets to set the busy flag
WorkstationTake_NoLatch(b, its, p) ==
    IF b
    THEN [ret |-> None, busy |-> b, items |-> its, conv |-> "none"]
    ELSE LET r == ConveyorTake(its, p)
         IN  [ret |-> r.ret, busy |-> b, items |-> r.items, conv |-> "take"]

\* Workstation.take; conv records the Conveyor method the call reached
WorkstationTake(b, its, p) ==
    IF b
    THEN [ret |-> None, busy |-> b, items |-> its, conv |-> "none"]
    ELSE LET r == ConveyorTake(its, p)
         IN  [ret |-> r.ret, busy |-> TRUE, items |-> r.items, conv |-> "take"]

\* (mutant) put that does not look at the busy flag
WorkstationPut_IgnoresBusy(b, its, p, item) ==
    LET r == ConveyorPut(its, p, item)
    IN  [ret |-> r.ret, busy |-> (IF r.ret THEN TRUE ELSE b),
         items |-> r.items, conv |-> "put"]

\* (mutant) put that marks the station busy on every attempt
WorkstationPut_BusyOnAttempt(b, its, p, item) ==
    IF b
    THEN [ret |-> FALSE, busy |-> b, items |-> its, conv |-> "none"]
    ELSE LET r == ConveyorPut(its, p, item)
         IN  [ret |-> r.ret, busy |-> TRUE, items |-> r.items, conv |-> "put"]

\* Workstation.put(item)
WorkstationPut(b, its, p, item) ==
    IF b
    THEN [ret |-> FALSE, busy |-> b, items |-> its, conv |-> "none"]
    ELSE LET r == ConveyorPut(its, p, item)
         IN  [ret |-> r.ret, busy |-> (IF r.ret THEN TRUE ELSE b),
              items |-> r.items, conv |-> "put"]

\* ----------------------------------------------------------------- Worker
\* Worker.have_product
have_product(h) == In(PRODUCT, h)

\* Worker.need_a
need_a(h) == ~In(A, h)

\* Worker.need_b
need_b(h) == ~In(B, h)

\* Worker.need_a_and_b
need_a_and_b(h) == need_a(h) /\ need_b(h)

\* (mutant) can_build satisfied by a single component
can_build_OneComponent(h) == ~In(PRODUCT, h) /\ (In(A, h) \/ In(B, h))

\* Worker.can_build
can_build(h) == ~In(PRODUCT, h) /\ In(A, h) /\ In(B, h)

\* (mutant) an acquisition branch that takes whatever component it sees
Acquire_AnyComponent(h, b, its, p, wanted) ==
    LET seen == WorkstationPeek(its, p)
    IN  IF seen \in {A, B}
        THEN LET r == WorkstationTake(b, its, p)
             IN  [hands |-> Append(h, r.ret), busy |-> r.busy, items |-> r.items,
                  peeked |-> seen, took |-> r.ret, put |-> "none", conv |-> r.conv]
        ELSE [hands |-> h, busy |-> b, items |-> its,
              peeked |-> seen, took |-> "none", put |-> "none", conv |-> "none"]

\* (mutant) an acquisition branch that takes without looking at the slot
Acquire_TakesUnseen(h, b, its, p, wanted) ==
    LET seen == WorkstationPeek(its, p)
        r == WorkstationTake(b, its, p)
    IN  [hands |-> Append(h, r.ret), busy |-> r.busy, items |-> r.items,
         peeked |-> seen, took |-> r.ret, put |-> "none", conv |-> r.conv]

\* (mutant) an acquisition branch that takes a Product off the belt as well
Acquire_AlsoProduct(h, b, its, p, wanted) ==
    LET seen == WorkstationPeek(its, p)
    IN  IF seen \in wanted \cup {PRODUCT}
        THEN LET r == WorkstationTake(b, its, p)
             IN  [hands |-> Append(h, r.ret), busy |-> r.busy, items |-> r.items,
                  peeked |-> seen, took |-> r.ret, put |-> "none", conv |-> r.conv]
        ELSE [hands |-> h, busy |-> b, items |-> its,
              peeked |-> seen, took |-> "none", put |-> "none", conv |-> "none"]

\* One acquisition branch of Worker.tick:
\*   if self.station.peek() in wanted: self.hands.append(self.station.take())
Acquire(h, b, its, p, wanted) ==
    LET seen == WorkstationPeek(its, p)
    IN  IF seen \in wanted
        THEN LET r == WorkstationTake(b, its, p)
             IN  [hands |-> Append(h, r.ret), busy |-> r.busy, items |-> r.items,
                  peeked |-> seen, took |-> r.ret, put |-> "none", conv |-> r.conv]
        ELSE [hands |-> h, busy |-> b, items |-> its,
              peeked |-> seen, took |-> "none", put |-> "none", conv |-> "none"]

\* (mutant) a put branch that lets go of the Product whatever put returns
PutProduct_DropsOnFailure(h, b, its, p) ==
    LET r == WorkstationPut(b, its, p, PRODUCT)
    IN  [hands |-> Remove(h, PRODUCT),
         busy |-> r.busy, items |-> r.items,
         peeked |-> "none", took |-> "none",
         put |-> (IF r.ret THEN "True" ELSE "False"), conv |-> r.conv]

\* (mutant) a put branch that keeps the Product it has put on the belt
PutProduct_KeepsProduct(h, b, its, p) ==
    LET r == WorkstationPut(b, its, p, PRODUCT)
    IN  [hands |-> h,
         busy |-> r.busy, items |-> r.items,
         peeked |-> "none", took |-> "none",
         put |-> (IF r.ret THEN "True" ELSE "False"), conv |-> r.conv]

\* The put branch of Worker.tick:
\*   if self.station.put(Item.PRODUCT): self.hands.remove(Item.PRODUCT)
PutProduct(h, b, its, p) ==
    LET r == WorkstationPut(b, its, p, PRODUCT)
    IN  [hands |-> (IF r.ret THEN Remove(h, PRODUCT) ELSE h),
         busy |-> r.busy, items |-> r.items,
         peeked |-> "none", took |-> "none",
         put |-> (IF r.ret THEN "True" ELSE "False"), conv |-> r.conv]

\* (mutant) a chain whose last branch is a plain else
WorkerAccess_ElseTakesB(h, b, its, p) ==
    IF have_product(h) THEN PutProduct(h, b, its, p)
    ELSE IF need_a_and_b(h) THEN Acquire(h, b, its, p, {A, B})
    ELSE IF need_a(h) THEN Acquire(h, b, its, p, {A})
    ELSE Acquire(h, b, its, p, {B})

\* The if/elif chain of Worker.tick (lines 137-151): at most one belt access
WorkerAccess(h, b, its, p) ==
    IF have_product(h) THEN PutProduct(h, b, its, p)
    ELSE IF need_a_and_b(h) THEN Acquire(h, b, its, p, {A, B})
    ELSE IF need_a(h) THEN Acquire(h, b, its, p, {A})
    ELSE IF need_b(h) THEN Acquire(h, b, its, p, {B})
    ELSE [hands |-> h, busy |-> b, items |-> its,
          peeked |-> "none", took |-> "none", put |-> "none", conv |-> "none"]

\* (mutant) tick_build that leaves the components in the hands
tick_build_KeepsComponents(h, s) ==
    IF s = 0
    THEN [hands |-> h, steps_remaining |-> assembly_time, build |-> "start"]
    ELSE IF s = 1
    THEN [hands |-> Append(h, PRODUCT), steps_remaining |-> 0, build |-> "finish"]
    ELSE [hands |-> h, steps_remaining |-> s - 1, build |-> "step"]

\* (mutant) tick_build that counts the tick of the acquisition as a build step
tick_build_OffByOne(h, s) ==
    IF s = 0
    THEN [hands |-> h, steps_remaining |-> assembly_time - 1, build |-> "start"]
    ELSE IF s = 1
    THEN [hands |-> Append(Remove(Remove(h, A), B), PRODUCT),
          steps_remaining |-> 0, build |-> "finish"]
    ELSE [hands |-> h, steps_remaining |-> s - 1, build |-> "step"]

\* Worker.tick_build
tick_build(h, s) ==
    IF s = 0
    THEN [hands |-> h, steps_remaining |-> assembly_time, build |-> "start"]
    ELSE IF s = 1
    THEN [hands |-> Append(Remove(Remove(h, A), B), PRODUCT),
          steps_remaining |-> 0, build |-> "finish"]
    ELSE [hands |-> h, steps_remaining |-> s - 1, build |-> "step"]

\* Worker.tick: the belt access, then the build check on the hands it left
WorkerTick(h, s, b, its, p) ==
    LET a  == WorkerAccess(h, b, its, p)
        bd == IF can_build(a.hands)
              THEN tick_build(a.hands, s)
              ELSE [hands |-> a.hands, steps_remaining |-> s, build |-> "none"]
    IN  [hands |-> bd.hands, steps_remaining |-> bd.steps_remaining,
         busy |-> a.busy, items |-> a.items,
         peeked |-> a.peeked, took |-> a.took, put |-> a.put,
         conv |-> a.conv, build |-> bd.build]

\* ------------------------------------------------------- history records
\* The record kept in `last`; fields a call does not have are "none".
NoCall ==
    [op |-> "init", side |-> "none", pos |-> -1, arg |-> "none",
     hands0 |-> <<>>, steps0 |-> 0, busy0 |-> FALSE, acc0 |-> 0,
     items0 |-> <<>>,
     counter0 |-> [x \in Item |-> 0],
     peeked |-> "none", took |-> "none", put |-> "none", conv |-> "none",
     build |-> "none", ret |-> "none"]

\* whether a worker's call was granted an access of the slot
Granted(r) == (r.took \notin {"none", None}) \/ r.put = "True"

\* --------------------------------------------------------------- Simulator
\* Simulator.__init__ (and Conveyor, Workstation, Worker, RandomProducer,
\* Consumer constructors), followed by the call run(ticks).
InitObjects ==
    /\ items = [j \in 1 .. len |-> EMPTY]
    /\ next_item \in {A, B, EMPTY}
    /\ counter = [x \in Item |-> 0]
    /\ output = <<>>
    /\ busy = [p \in Pos |-> FALSE]
    /\ hands = [w \in Workers |-> <<>>]
    /\ steps_remaining = [w \in Workers |-> 0]
    /\ last = NoCall
    /\ prev = NoCall
    /\ acc = [p \in Pos |-> 0]
    /\ second_at = [w \in Workers |-> -1]
    /\ put_at = [w \in Workers |-> -1]
    /\ fed = <<>>
    /\ clean = TRUE
    /\ nops = 0
    /\ taken = [p \in Pos |-> "none"]
    /\ supplied = [x \in Item |-> 0]
    /\ due = {}
    /\ script_at = 0

\* (mutant) a loop that runs once more than asked
RunContinues_OneMore(n, j) == j <= n

\* for i in range(0, ticks): whether the loop of Simulator.run goes on after
\* j rounds
RunContinues(n, j) == j < n

Init ==
    /\ InitObjects
    /\ ticks \in 0 .. MaxTicks
    /\ i = 0
    /\ k = 0
    /\ pc = IF RunContinues(ticks, 0) THEN "conveyor" ELSE "done"

\* (mutant) the bottom worker ticked before the top worker
TickOrder_BottomFirst == <<"bottom", "top">>

\* The order of the two calls in the body of the loop of lines 294-297
TickOrder == <<"top", "bottom">>

\* self.conveyor.tick() (line 288): RandomProducer.next draws the item after
\* the one it hands over.
SimConveyorTick ==
    /\ pc = "conveyor"
    /\ \E drawn \in {A, B, EMPTY} :
         LET r == ConveyorTick(items, next_item)
         IN  /\ items' = r.items
             /\ counter' = Consume(counter, r.consumed)
             /\ output' = <<r.consumed>> \o output
             /\ next_item' = drawn
             /\ last' = [NoCall EXCEPT !.op = "Conveyor.tick", !.arg = next_item,
                                       !.items0 = items, !.counter0 = counter,
                                       !.ret = r.consumed]
             /\ prev' = last
    /\ supplied' = [supplied EXCEPT ![next_item] = @ + 1]
    /\ acc' = [p \in Pos |-> 0]
    /\ pc' = "stations"
    /\ k' = 0
    /\ UNCHANGED <<busy, hands, steps_remaining, ticks, i, second_at, put_at,
                   fed, clean, nops, taken, due, script_at>>

\* station.tick() for the station the loop of lines 290-291 is at
SimStationTick ==
    /\ pc = "stations"
    /\ busy' = [busy EXCEPT ![k] = WorkstationTick(busy[k])]
    /\ last' = [NoCall EXCEPT !.op = "Workstation.tick", !.pos = k,
                              !.busy0 = busy[k], !.items0 = items]
    /\ prev' = last
    /\ IF k + 1 < len
       THEN /\ k' = k + 1
            /\ pc' = pc
       ELSE /\ k' = 0
            /\ pc' = "worker1"
    /\ UNCHANGED <<items, next_item, counter, output, hands, steps_remaining,
                   ticks, i, acc, second_at, put_at, fed, clean, nops,
                   taken, supplied, due, script_at>>

\* What one worker.tick() of the loop of lines 294-297 does to the state
SimWorker(side) ==
    LET w == <<side, k>>
        r == WorkerTick(hands[w], steps_remaining[w], busy[k], items, k)
    IN  /\ hands' = [hands EXCEPT ![w] = r.hands]
        /\ steps_remaining' = [steps_remaining EXCEPT ![w] = r.steps_remaining]
        /\ busy' = [busy EXCEPT ![k] = r.busy]
        /\ items' = r.items
        /\ last' = [NoCall EXCEPT !.op = "Worker.tick", !.side = side, !.pos = k,
                                  !.hands0 = hands[w], !.steps0 = steps_remaining[w],
                                  !.busy0 = busy[k], !.acc0 = acc[k],
                                  !.items0 = items,
                                  !.peeked = r.peeked, !.took = r.took,
                                  !.put = r.put, !.conv = r.conv,
                                  !.build = r.build]
        /\ prev' = last
        /\ acc' = [acc EXCEPT ![k] = @ + (IF Granted(r) THEN 1 ELSE 0)]
        /\ second_at' = [second_at EXCEPT
                           ![w] = IF r.took # "none" /\ Len(hands[w]) = 1
                                  THEN i + 1 ELSE @]
        /\ put_at' = [put_at EXCEPT
                        ![w] = IF r.took # "none" /\ Len(hands[w]) = 1 THEN -1
                               ELSE IF r.put # "none" /\ @ = -1 THEN i + 1
                               ELSE @]
        /\ due' = IF r.put = "True" THEN due \cup {<<i + 1, k>>} ELSE due

\* top_worker.tick() (line 296)
SimTopWorkerTick ==
    /\ pc = "worker1"
    /\ SimWorker(TickOrder[1])
    /\ pc' = "worker2"
    /\ UNCHANGED <<next_item, counter, output, ticks, i, k, fed, clean, nops,
                   taken, supplied, script_at>>

\* bottom_worker.tick() (line 297), then the next station, or the end of
\* Simulator.tick and the next round of the loop of Simulator.run
SimBottomWorkerTick ==
    /\ pc = "worker2"
    /\ SimWorker(TickOrder[2])
    /\ IF k + 1 < len
       THEN /\ k' = k + 1
            /\ pc' = "worker1"
            /\ i' = i
       ELSE /\ k' = 0
            /\ i' = i + 1
            /\ pc' = IF RunContinues(ticks, i + 1) THEN "conveyor" ELSE "done"
    /\ UNCHANGED <<next_item, counter, output, ticks, fed, clean, nops,
                   taken, supplied, script_at>>

Next ==
    \/ SimConveyorTick
    \/ SimStationTick
    \/ SimTopWorkerTick
    \/ SimBottomWorkerTick

Spec == Init /\ [][Next]_vars

\* Between ticks: no Simulator.tick is in progress
BetweenTicks == pc \in {"conveyor", "done"}

TypeOK ==
    /\ items \in [1 .. len -> Item]
    /\ busy \in [Pos -> BOOLEAN]
    /\ i \in 0 .. MaxTicks
    /\ pc \in {"conveyor", "stations", "worker1", "worker2", "done", "unit"}

\* ------------------------------------------------- an endless biased run
\* Simulator.tick called without end (no run(n) stops it), with the draws of
\* RandomProducer._random_next fixed to one of the sequences random.choice
\* can return: StarvePrefix, then StarveCycle over and over.  script_at is
\* the number of draws made after the constructor's, counted round the cycle.
\* The tallies of the Consumer and the count of ticks grow without bound and
\* nothing reads them: this specification leaves them as they are, and the
\* item handed to the Consumer is recorded in last.ret only.
StarvePrefix == <<A, A, B, B, A, A, EMPTY>>

StarveCycle == <<A, B, A, A, A, EMPTY>>

Drawn(n) ==
    IF n < Len(StarvePrefix)
    THEN StarvePrefix[n + 1]
    ELSE StarveCycle[n - Len(StarvePrefix) + 1]

Fold(n) ==
    IF n = Len(StarvePrefix) + Len(StarveCycle) THEN Len(StarvePrefix) ELSE n

InitStarve ==
    /\ InitObjects
    /\ next_item = Drawn(script_at)
    /\ ticks = 0
    /\ i = 0
    /\ k = 0
    /\ pc = "conveyor"

\* self.conveyor.tick() (line 288) with the scripted draw
StarveConveyorTick ==
    /\ pc = "conveyor"
    /\ LET r == ConveyorTick(items, next_item)
       IN  /\ items' = r.items
           /\ last' = [NoCall EXCEPT !.op = "Conveyor.tick", !.arg = next_item,
                                     !.items0 = items, !.counter0 = counter,
                                     !.ret = r.consumed]
           /\ prev' = last
    /\ script_at' = Fold(script_at + 1)
    /\ next_item' = Drawn(script_at')
    /\ acc' = [p \in Pos |-> 0]
    /\ pc' = "stations"
    /\ k' = 0
    /\ UNCHANGED <<counter, output, busy, hands, steps_remaining, ticks, i,
                   second_at, put_at, fed, clean, nops, taken, supplied, due>>

\* bottom_worker.tick() (line 297), then the next station, or the end of
\* Simulator.tick and its next call
StarveBottomWorkerTick ==
    /\ pc = "worker2"
    /\ SimWorker(TickOrder[2])
    /\ IF k + 1 < len
       THEN /\ k' = k + 1
            /\ pc' = "worker1"
       ELSE /\ k' = 0
            /\ pc' = "conveyor"
    /\ UNCHANGED <<next_item, counter, output, ticks, i, fed, clean, nops,
                   taken, supplied, script_at>>

NextStarve ==
    \/ StarveConveyorTick
    \/ SimStationTick
    \/ SimTopWorkerTick
    \/ StarveBottomWorkerTick

\* The simulation never stops of itself: every enabled step is taken.
SpecStarve == InitStarve /\ [][NextStarve]_vars /\ WF_vars(NextStarve)

\* ------------------------------------------------------------ unit harness
\* A caller holding the Conveyor (with its RandomProducer and Consumer) and
\* the Workstations of a constructed Simulator, making up to MaxOps calls of
\* their methods in any order and with any arguments: of the Conveyor alone
\* (SpecConveyor), or of the Workstations and Conveyor.tick (SpecStation).
InitUnit ==
    /\ InitObjects
    /\ ticks = 0
    /\ i = 0
    /\ k = 0
    /\ pc = "unit"

UnitFrame ==
    /\ nops < MaxOps
    /\ nops' = nops + 1
    /\ pc = "unit"
    /\ UNCHANGED <<hands, steps_remaining, ticks, i, pc, k, prev, second_at, put_at,
                   supplied, due, script_at>>

\* conveyor.tick()
UnitConveyorTick ==
    /\ UnitFrame
    /\ \E drawn \in {A, B, EMPTY} :
         LET r == ConveyorTick(items, next_item)
         IN  /\ items' = r.items
             /\ counter' = Consume(counter, r.consumed)
             /\ output' = <<r.consumed>> \o output
             /\ next_item' = drawn
             /\ fed' = Append(fed, next_item)
             /\ last' = [NoCall EXCEPT !.op = "Conveyor.tick", !.arg = next_item,
                                       !.items0 = items, !.counter0 = counter,
                                       !.ret = r.consumed]
    /\ taken' = [p \in Pos |-> "none"]
    /\ UNCHANGED <<busy, acc, clean>>

\* conveyor.peek(p)
UnitConveyorPeek ==
    /\ UnitFrame
    /\ \E p \in Pos :
         last' = [NoCall EXCEPT !.op = "Conveyor.peek", !.pos = p,
                                !.items0 = items, !.ret = ConveyorPeek(items, p)]
    /\ UNCHANGED <<items, next_item, counter, output, busy, acc, fed, clean, taken>>

\* conveyor.take(p)
UnitConveyorTake ==
    /\ UnitFrame
    /\ \E p \in Pos :
         LET r == ConveyorTake(items, p)
         IN  /\ items' = r.items
             /\ last' = [NoCall EXCEPT !.op = "Conveyor.take", !.pos = p,
                                       !.items0 = items, !.ret = r.ret,
                                       !.conv = "take"]
    /\ clean' = FALSE
    /\ UNCHANGED <<next_item, counter, output, busy, acc, fed, taken>>

\* conveyor.put(p, item)
UnitConveyorPut ==
    /\ UnitFrame
    /\ \E p \in Pos, item \in Item :
         LET r == ConveyorPut(items, p, item)
         IN  /\ items' = r.items
             /\ last' = [NoCall EXCEPT !.op = "Conveyor.put", !.pos = p,
                                       !.arg = item, !.items0 = items,
                                       !.ret = (IF r.ret THEN "True" ELSE "False"),
                                       !.conv = "put"]
    /\ clean' = FALSE
    /\ UNCHANGED <<next_item, counter, output, busy, acc, fed, taken>>

\* stations[p].tick()
UnitWorkstationTick ==
    /\ UnitFrame
    /\ \E p \in Pos :
         /\ busy' = [busy EXCEPT ![p] = WorkstationTick(busy[p])]
         /\ acc' = [acc EXCEPT ![p] = 0]
         /\ taken' = [taken EXCEPT ![p] = "none"]
         /\ last' = [NoCall EXCEPT !.op = "Workstation.tick", !.pos = p,
                                   !.busy0 = busy[p], !.items0 = items]
    /\ UNCHANGED <<items, next_item, counter, output, fed, clean>>

\* stations[p].peek()
UnitWorkstationPeek ==
    /\ UnitFrame
    /\ \E p \in Pos :
         last' = [NoCall EXCEPT !.op = "Workstation.peek", !.pos = p,
                                !.busy0 = busy[p], !.items0 = items,
                                !.ret = WorkstationPeek(items, p)]
    /\ UNCHANGED <<items, next_item, counter, output, busy, acc, fed, clean, taken>>

\* stations[p].take()
UnitWorkstationTake ==
    /\ UnitFrame
    /\ \E p \in Pos :
         LET r == WorkstationTake(busy[p], items, p)
         IN  /\ items' = r.items
             /\ busy' = [busy EXCEPT ![p] = r.busy]
             /\ acc' = [acc EXCEPT ![p] = @ + (IF r.ret # None THEN 1 ELSE 0)]
             /\ taken' = [taken EXCEPT ![p] = IF r.ret # None THEN r.ret ELSE @]
             /\ clean' = (clean /\ r.conv = "none")
             /\ last' = [NoCall EXCEPT !.op = "Workstation.take", !.pos = p,
                                       !.busy0 = busy[p], !.acc0 = acc[p],
                                       !.items0 = items,
                                       !.ret = r.ret, !.conv = r.conv]
    /\ UNCHANGED <<next_item, counter, output, fed>>

\* stations[p].put(item)
UnitWorkstationPut ==
    /\ UnitFrame
    /\ \E p \in Pos, item \in Item :
         LET r == WorkstationPut(busy[p], items, p, item)
         IN  /\ items' = r.items
             /\ busy' = [busy EXCEPT ![p] = r.busy]
             /\ acc' = [acc EXCEPT ![p] = @ + (IF r.ret THEN 1 ELSE 0)]
             /\ taken' = taken
             /\ clean' = (clean /\ r.conv = "none")
             /\ last' = [NoCall EXCEPT !.op = "Workstation.put", !.pos = p,
                                       !.arg = item, !.busy0 = busy[p],
                                       !.acc0 = acc[p], !.items0 = items,
                                       !.ret = (IF r.ret THEN "True" ELSE "False"),
                                       !.conv = r.conv]
    /\ UNCHANGED <<next_item, counter, output, fed>>

NextConveyor ==
    \/ UnitConveyorTick
    \/ UnitConveyorPeek
    \/ UnitConveyorTake
    \/ UnitConveyorPut

SpecConveyor == InitUnit /\ [][NextConveyor]_vars

NextStation ==
    \/ UnitConveyorTick
    \/ UnitWorkstationTick
    \/ UnitWorkstationPeek
    \/ UnitWorkstationTake
    \/ UnitWorkstationPut

SpecStation == InitUnit /\ [][NextStation]_vars

\* ================================================================= claims
\* Both workers of station last.pos have been ticked in the current tick:
\* `prev` and `last` are the records of their two calls.
PairDone ==
    /\ last.op = "Worker.tick"
    /\ prev.op = "Worker.tick"
    /\ prev.pos = last.pos
    /\ prev.side # last.side

\* The call record of the top, respectively bottom, worker of that station
TopCall == IF last.side = "top" THEN last ELSE prev
BottomCall == IF last.side = "bottom" THEN last ELSE prev

\* What the slot of that station held after the shift, before either worker
Shown == prev.items0[prev.pos + 1]

\* A worker with hands h would take the content c / would put onto c
WantsTake(h, c) == ~In(PRODUCT, h) /\ c \in {A, B} /\ ~In(c, h)
WantsPut(h, c) == In(PRODUCT, h) /\ c = EMPTY

\* C1: in every tick of the simulation, each station grants at most one
\* take-or-put to its two workers, and a worker whose access was not granted
\* leaves the belt as it was: the slot is changed by at most one worker per
\* station per tick.
C1_OneAccessPerStationPerTick ==
    /\ \A p \in Pos : acc[p] <= 1
    /\ (last.op = "Worker.tick" /\ ~Granted(last)) => items = last.items0
    /\ (last.op = "Worker.tick" /\ Granted(last)) =>
           /\ last.acc0 = 0
           /\ \A p \in Pos : p # last.pos => items[p + 1] = last.items0[p + 1]

\* C1 witness: a bottom worker's put is refused because the top worker of its
\* station was granted the access of this tick.
C1_Witness ==
    /\ PairDone
    /\ last.side = "bottom"
    /\ last.put = "False"
    /\ last.busy0
    /\ Granted(prev)
    /\ acc[last.pos] = 1

\* C2: between two Workstation.tick calls a station grants at most one access:
\* once a take was granted or a put succeeded, every further take returns None
\* and every further put False, whatever the belt holds and without a call to
\* the conveyor; a station that granted nothing since its last tick (or since
\* construction) lets the next take/put through to the conveyor.
C2_BusyLatch ==
    /\ \A p \in Pos : acc[p] <= 1
    /\ \A p \in Pos : busy[p] <=> (acc[p] = 1)
    /\ (last.op = "Workstation.take" /\ last.acc0 >= 1) =>
           /\ last.ret = None
           /\ last.ret # EMPTY
           /\ last.conv = "none"
           /\ items = last.items0
    /\ (last.op = "Workstation.put" /\ last.acc0 >= 1) =>
           /\ last.ret = "False"
           /\ last.conv = "none"
           /\ items = last.items0
    /\ (last.op = "Workstation.take" /\ last.acc0 = 0) =>
           /\ last.conv = "take"
           /\ last.ret = last.items0[last.pos + 1]
           /\ acc[last.pos] = 1
    /\ (last.op = "Workstation.put" /\ last.acc0 = 0) =>
           /\ last.conv = "put"
           /\ (last.ret = "True") <=> (last.items0[last.pos + 1] = EMPTY)
           /\ acc[last.pos] = (IF last.ret = "True" THEN 1 ELSE 0)
    /\ (last.op = "Workstation.tick") =>
           /\ ~busy[last.pos]
           /\ acc[last.pos] = 0

\* C2 witness: a take refused by a latched station whose slot holds an item.
C2_Witness ==
    /\ last.op = "Workstation.take"
    /\ last.acc0 = 1
    /\ last.ret = None
    /\ items[last.pos + 1] \in {A, B, PRODUCT}

C4_Contended ==
    LET th == TopCall.hands0
        bh == BottomCall.hands0
    IN  \/ WantsTake(th, Shown) /\ WantsTake(bh, Shown)
        \/ WantsPut(th, Shown) /\ WantsPut(bh, Shown)
        \/ WantsTake(th, Shown) /\ In(PRODUCT, bh)
        \/ WantsPut(th, Shown) /\ ~In(PRODUCT, bh) /\ ~can_build(bh)

C4_FrontWorkerPriority ==
    (PairDone /\ C4_Contended) =>
        /\ Granted(TopCall)
        /\ ~Granted(BottomCall)
        /\ hands[<<"bottom", last.pos>>] = BottomCall.hands0

\* C4 witness: the top worker took a component and the bottom worker, holding
\* a Product to put, was refused.
C4_Witness ==
    /\ PairDone
    /\ WantsTake(TopCall.hands0, Shown)
    /\ In(PRODUCT, BottomCall.hands0)
    /\ TopCall.took = Shown
    /\ BottomCall.put = "False"

\* C5: the conveyor has exactly `len` slots after every Conveyor.tick and
\* after any interleaving of peek/take/put calls between ticks, so the
\* assertion of Conveyor.tick holds.
C5_SlotCount ==
    /\ Len(items) = len
    /\ DOMAIN items = 1 .. len
    /\ last.op = "Conveyor.tick" => Len(items) = Len(last.items0)

\* C5 witness: a Conveyor.tick after takes or puts have changed the belt.
C5_Witness ==
    /\ last.op = "Conveyor.tick"
    /\ ~clean
    /\ \E j \in 2 .. len : items[j] # EMPTY
    /\ Len(items) = len

\* C6: Conveyor.tick hands the item of the last slot to the consumer, puts
\* the producer's item in slot 0 and moves every other item one slot on.
\* Hence, with no take or put, the item produced in tick t is at slot k after
\* tick t + k and is tallied by the consumer in tick t + len; with len = 3 and
\* a producer yielding A, B, Empty, Empty: slot 0 = A after 1 tick, slot 0 = B
\* and slot 1 = A after 2 ticks, tally of A = 1 after 4 ticks.
C6_TickShiftsByOne ==
    /\ last.op = "Conveyor.tick" =>
           /\ items[1] = last.arg
           /\ \A j \in 1 .. (len - 1) : items[j + 1] = last.items0[j]
           /\ last.ret = last.items0[len]
           /\ counter = [x \in Item |->
                           last.counter0[x] + (IF x = last.ret THEN 1 ELSE 0)]
           /\ output # <<>> /\ Head(output) = last.ret
    /\ clean =>
           /\ \A t \in 1 .. Len(fed) : \A s \in 0 .. (len - 1) :
                  (t + s = Len(fed)) => items[s + 1] = fed[t]
           /\ \A x \in {A, B} :
                  counter[x] = Cardinality({t \in 1 .. Len(fed) :
                                               t + len <= Len(fed) /\ fed[t] = x})
           /\ counter[PRODUCT] = 0
    /\ (clean /\ len = 3 /\ fed = <<A>>) => items[1] = A
    /\ (clean /\ len = 3 /\ fed = <<A, B>>) => (items[1] = B /\ items[2] = A)
    /\ (clean /\ len = 3 /\ fed = <<A, B, EMPTY, EMPTY>>) =>
           (counter[A] = 1 /\ items = <<EMPTY, EMPTY, B>>)

\* C6 witness: the scenario's fourth tick, the A of the first tick consumed.
C6_Witness ==
    /\ clean
    /\ fed = <<A, B, EMPTY, EMPTY>>
    /\ last.op = "Conveyor.tick"
    /\ last.ret = A
    /\ counter[A] = 1

\* C7: Conveyor.put on a non-empty slot fails and changes nothing, on an Empty
\* slot stores the item there and succeeds; Conveyor.take returns the slot's
\* content and leaves the slot Empty; Conveyor.peek returns the slot's content
\* and changes nothing; none of them touches another slot.
C7_SlotOperations ==
    LET q == last.pos + 1
    IN  /\ last.op \in {"Conveyor.peek", "Conveyor.take", "Conveyor.put"} =>
               \A j \in 1 .. len : j # q => items[j] = last.items0[j]
        /\ (last.op = "Conveyor.put" /\ last.items0[q] # EMPTY) =>
               /\ last.ret = "False"
               /\ items = last.items0
        /\ (last.op = "Conveyor.put" /\ last.items0[q] = EMPTY) =>
               /\ last.ret = "True"
               /\ items[q] = last.arg
        /\ last.op = "Conveyor.take" =>
               /\ last.ret = last.items0[q]
               /\ items[q] = EMPTY
               /\ (last.items0[q] = EMPTY => items = last.items0)
        /\ last.op = "Conveyor.peek" =>
               /\ last.ret = last.items0[q]
               /\ items = last.items0

\* C7 witness: a put refused by an occupied slot while another slot holds an
\* item as well.
C7_Witness ==
    /\ last.op = "Conveyor.put"
    /\ last.ret = "False"
    /\ last.arg \in {A, B, PRODUCT}
    /\ last.arg # items[last.pos + 1]
    /\ \E j \in 1 .. len : j # last.pos + 1 /\ items[j] # EMPTY

\* The worker whose tick `last` records, and what its slot showed to it
LastWorker == <<last.side, last.pos>>
LastShown == last.items0[last.pos + 1]

\* C8: a worker's tick takes from the belt only a component (A or B) its
\* hands do not hold yet, and that is the only way a component enters its
\* hands; it never takes Product or Empty, nor a second A or B.  Holding only
\* A and shown B it ends the tick with [A, B]; holding only B and shown A,
\* with [B, A].
C8_AcquisitionGuard ==
    last.op = "Worker.tick" =>
        /\ last.took # "none" =>
               /\ LastShown \in {A, B}
               /\ last.took = LastShown
               /\ ~In(LastShown, last.hands0)
               /\ hands[LastWorker][Len(hands[LastWorker])] = LastShown
                     \/ last.build = "finish"
        /\ \A x \in {A, B} :
               Count(hands[LastWorker], x) > Count(last.hands0, x) =>
                   /\ last.took = x
                   /\ Count(last.hands0, x) = 0
        /\ LastShown \in {PRODUCT, EMPTY} => last.took = "none"
        /\ In(LastShown, last.hands0) => last.took = "none"
        /\ ~In(EMPTY, hands[LastWorker])
        /\ ~In(None, hands[LastWorker])
        /\ Count(hands[LastWorker], PRODUCT) > Count(last.hands0, PRODUCT) =>
               (last.took = "none" /\ last.build = "finish")
        /\ (last.hands0 = <<A>> /\ LastShown = B) => hands[LastWorker] = <<A, B>>
        /\ (last.hands0 = <<B>> /\ LastShown = A) => hands[LastWorker] = <<B, A>>

\* C8 witness: a worker holding only B took the A its slot showed.
C8_Witness ==
    /\ last.op = "Worker.tick"
    /\ last.hands0 = <<B>>
    /\ LastShown = A
    /\ last.took = A
    /\ hands[LastWorker] = <<B, A>>

C10_BuildTiming ==
    /\ \A w \in Workers :
           In(PRODUCT, hands[w]) => (~In(A, hands[w]) /\ ~In(B, hands[w]))
    /\ (last.op = "Worker.tick" /\ last.build = "finish") =>
           /\ In(A, last.hands0) /\ In(B, last.hands0)
           /\ hands[LastWorker] = <<PRODUCT>>
           /\ steps_remaining[LastWorker] = 0
    /\ (last.op = "Worker.tick" /\ last.took # "none" /\ Len(last.hands0) = 1) =>
           /\ last.build = "start"
           /\ steps_remaining[LastWorker] = assembly_time
    /\ BetweenTicks =>
           \A w \in Workers :
               second_at[w] # -1 =>
                   LET d == i - second_at[w]
                   IN  /\ d >= 0
                       /\ d < assembly_time =>
                              /\ In(A, hands[w]) /\ In(B, hands[w])
                              /\ ~In(PRODUCT, hands[w])
                              /\ steps_remaining[w] = assembly_time - d
                              /\ put_at[w] = -1
                       /\ d = assembly_time =>
                              /\ hands[w] = <<PRODUCT>>
                              /\ steps_remaining[w] = 0
                              /\ put_at[w] = -1
                       /\ d > assembly_time =>
                              put_at[w] = second_at[w] + assembly_time + 1

\* C10 witness: a worker has put its product in the tick after the build's end.
C10_Witness ==
    /\ BetweenTicks
    /\ \E w \in Workers :
           /\ second_at[w] # -1
           /\ put_at[w] = second_at[w] + assembly_time + 1
           /\ i = put_at[w]
           /\ hands[w] = <<>>

\* C11: a worker with empty hands whose station is not busy and whose slot
\* shows A (respectively B) ends its tick holding exactly [A] (respectively
\* [B]), the slot Empty, steps_remaining still 0 and no build started.
C11_FirstAcquisition ==
    (last.op = "Worker.tick" /\ last.hands0 = <<>> /\ ~last.busy0
       /\ LastShown \in {A, B}) =>
        /\ hands[LastWorker] = <<LastShown>>
        /\ last.took = LastShown
        /\ items[last.pos + 1] = EMPTY
        /\ steps_remaining[LastWorker] = 0
        /\ last.steps0 = 0
        /\ last.build = "none"

\* C11 witness: a bottom worker with empty hands took the B its slot showed.
C11_Witness ==
    /\ last.op = "Worker.tick"
    /\ last.side = "bottom"
    /\ last.hands0 = <<>>
    /\ LastShown = B
    /\ hands[LastWorker] = <<B>>
    /\ steps_remaining[LastWorker] = 0

\* C12 as stated: once a station's take was granted the A of its slot, a
\* further take at that station in the same tick returns None, and a peek at
\* it in the same tick still returns A.
C12_AsStated ==
    /\ (last.op = "Workstation.take" /\ last.acc0 >= 1
          /\ taken[last.pos] = A) => last.ret = None
    /\ (last.op = "Workstation.peek" /\ taken[last.pos] = A) => last.ret = A

\* C12 (amended): the further take returns None, and the peek returns Empty,
\* the content the granted take left in the slot.
C12_PeekAfterTake ==
    /\ (last.op = "Workstation.take" /\ last.acc0 >= 1
          /\ taken[last.pos] = A) =>
           /\ last.ret = None
           /\ items[last.pos + 1] = EMPTY
    /\ (last.op = "Workstation.peek" /\ taken[last.pos] = A) =>
           /\ last.ret = EMPTY
           /\ last.busy0

\* C12 witness: a peek at a station whose take was granted an A in this tick.
C12_Witness ==
    /\ last.op = "Workstation.peek"
    /\ taken[last.pos] = A
    /\ last.busy0
    /\ last.ret = EMPTY

\* Sum of a tally over all item kinds
Total(cnt) == cnt[A] + cnt[B] + cnt[PRODUCT] + cnt[EMPTY]

\* Number of Conveyor.tick calls made so far by Simulator.run
TicksBegun == IF pc \in {"conveyor", "done"} THEN i ELSE i + 1

\* How run(ticks) stands at every moment: never more than `ticks` rounds, done
\* exactly when `ticks` rounds are complete, and one producer.next() and one
\* consumer.consume() per round begun.
C13_Counts ==
    /\ i <= ticks
    /\ TicksBegun <= ticks
    /\ (pc = "done") <=> (i = ticks)
    /\ Total(counter) = TicksBegun
    /\ Total(supplied) = TicksBegun
    /\ Len(output) = TicksBegun
    /\ pc = "done" => Total(counter) = ticks

\* Calls Simulator.run has still to make: per tick one Conveyor.tick, len
\* Workstation.tick and 2 * len Worker.tick
CallsLeft ==
    LET perTick == 1 + len + 2 * len
        made == CASE pc = "conveyor" -> 0
                  [] pc = "stations" -> 1 + k
                  [] pc = "worker1"  -> 1 + len + 2 * k
                  [] pc = "worker2"  -> 1 + len + 2 * k + 1
                  [] OTHER           -> 0
    IN  (ticks - i) * perTick - made

\* While the run is not done it stands before a call it can make: the
\* conveyor's tick, a station's tick, or the tick of a worker of a station
\* that exists (Worker.tick has no precondition beyond its own guard).
C13_NotStuck ==
    /\ pc \in {"conveyor", "stations", "worker1", "worker2", "done"}
    /\ pc = "conveyor" => ENABLED SimConveyorTick
    /\ pc = "stations" => ENABLED SimStationTick
    /\ pc \in {"worker1", "worker2"} =>
           /\ k \in Pos
           /\ \A side \in Sides : <<side, k>> \in DOMAIN hands
           /\ TickOrder[1] \in Sides /\ TickOrder[2] \in Sides

\* C13: Simulator.run(n) terminates after exactly n ticks with no early exit;
\* producer.next() and consumer.consume() are each called once per tick, so
\* after the run the consumer's tallies over all item kinds sum to n.
\* Termination: while the run is not done its next call can be made, and
\* every call lowers the number of calls left by one, down to 0 when done.
C13_RunTerminates ==
    /\ []C13_Counts
    /\ []C13_NotStuck
    /\ [](CallsLeft >= 0 /\ ((CallsLeft = 0) <=> (pc = "done")))
    /\ [][CallsLeft' = CallsLeft - 1]_vars

\* C13 witness: a run of several ticks has ended with a Product tallied.
C13_Witness ==
    /\ pc = "done"
    /\ ticks = MaxTicks
    /\ i = ticks
    /\ counter[PRODUCT] = 1
    /\ Total(counter) = ticks

\* The call that follows call c inside Simulator.run: after the conveyor's
\* tick the stations' ticks in ascending order, then for each station in
\* ascending order its top worker and then its bottom worker, then the next
\* conveyor tick.
C14_Follows(c, d) ==
    \/ c.op = "init" /\ d.op = "Conveyor.tick"
    \/ c.op = "Conveyor.tick" /\ d.op = "Workstation.tick" /\ d.pos = 0
    \/ c.op = "Workstation.tick" /\ c.pos < len - 1
          /\ d.op = "Workstation.tick" /\ d.pos = c.pos + 1
    \/ c.op = "Workstation.tick" /\ c.pos = len - 1
          /\ d.op = "Worker.tick" /\ d.side = "top" /\ d.pos = 0
    \/ c.op = "Worker.tick" /\ c.side = "top"
          /\ d.op = "Worker.tick" /\ d.side = "bottom" /\ d.pos = c.pos
    \/ c.op = "Worker.tick" /\ c.side = "bottom" /\ c.pos < len - 1
          /\ d.op = "Worker.tick" /\ d.side = "top" /\ d.pos = c.pos + 1
    \/ c.op = "Worker.tick" /\ c.side = "bottom" /\ c.pos = len - 1
          /\ d.op = "Conveyor.tick"

\* C14: within every Simulator.tick the conveyor shifts first, then every
\* station's busy flag is reset exactly once, then the workers are ticked,
\* stations ascending and top before bottom.  So the station of a top worker
\* is not busy when that worker is ticked, and its take or put is refused only
\* by an occupied slot, never for contention.
C14_TickOrder ==
    /\ last.op # "init" => C14_Follows(prev, last)
    /\ last.op = "Workstation.tick" => ~busy[last.pos]
    /\ pc \in {"worker1", "worker2"} =>
           \A p \in Pos : p > k => (~busy[p] /\ acc[p] = 0)
    /\ (last.op = "Worker.tick" /\ last.side = "top") =>
           /\ ~last.busy0
           /\ last.acc0 = 0
           /\ last.took # None
           /\ last.put = "False" =>
                  (last.conv = "put" /\ LastShown # EMPTY)
           /\ last.peeked \in {A, B} /\ ~In(PRODUCT, last.hands0)
                 /\ ~In(last.peeked, last.hands0) => last.took = last.peeked

\* C14 witness: a top worker's put refused by an occupied slot of a station
\* that is not busy.
C14_Witness ==
    /\ last.op = "Worker.tick"
    /\ last.side = "top"
    /\ last.put = "False"
    /\ ~last.busy0
    /\ LastShown \in {A, B}
    /\ i >= 6

\* The tick the simulation is in when the call `last` was made
LastTick == IF last.side = "bottom" /\ last.pos = len - 1 THEN i ELSE i + 1

C16_BuilderLeavesStation ==
    /\ (last.op = "Worker.tick" /\ In(A, last.hands0) /\ In(B, last.hands0)) =>
           /\ last.took = "none"
           /\ last.put = "none"
           /\ last.conv = "none"
           /\ busy[last.pos] = last.busy0
           /\ acc[last.pos] = last.acc0
           /\ items = last.items0
           /\ last.build \in {"step", "finish"}
           /\ last.build = "step" =>
                  /\ hands[LastWorker] = last.hands0
                  /\ steps_remaining[LastWorker] = last.steps0 - 1
           /\ last.build = "finish" =>
                  /\ hands[LastWorker] = <<PRODUCT>>
                  /\ steps_remaining[LastWorker] = 0
    /\ (PairDone /\ In(A, TopCall.hands0) /\ In(B, TopCall.hands0)) =>
           /\ ~BottomCall.busy0
           /\ BottomCall.acc0 = 0
           /\ BottomCall.took # None

\* C16 witness: while the top worker of a station was building, the bottom
\* worker took the component the slot showed.
C16_Witness ==
    /\ PairDone
    /\ In(A, TopCall.hands0) /\ In(B, TopCall.hands0)
    /\ Shown \in {A, B}
    /\ TopCall.build = "step"
    /\ BottomCall.took = Shown

\* The call `last` is the tick of the worker on `side` of station 0
FirstStation(side) ==
    last.op = "Worker.tick" /\ last.side = side /\ last.pos = 0

\* C17: there is a sequence of draws, with Empty drawn again and again,
\* under which the bottom worker of station 0 comes to hold a Product and
\* holds it for ever, each of its puts being refused, while the top worker
\* of the same station takes components and places Products again and again.
C17_Starvation ==
    /\ <>[]In(PRODUCT, hands[<<"bottom", 0>>])
    /\ [](FirstStation("bottom") /\ In(PRODUCT, last.hands0) =>
              last.put = "False")
    /\ []<>(FirstStation("top") /\ last.took \in {A, B})
    /\ []<>(FirstStation("top") /\ last.put = "True")
    /\ []<>(last.op = "Conveyor.tick" /\ last.arg = EMPTY)

\* C17 witness: in the repeating part of the sequence, the bottom worker's
\* put is refused because the top worker has just placed its own Product.
C17_Witness ==
    /\ script_at >= Len(StarvePrefix)
    /\ FirstStation("bottom")
    /\ last.hands0 = <<PRODUCT>>
    /\ last.put = "False"
    /\ last.busy0
    /\ items[1] = PRODUCT
    /\ hands[<<"top", 0>>] = <<>>
    /\ counter = [x \in Item |-> 0]

\* Number of slots of the belt holding x
OnBelt(x) == Cardinality({j \in 1 .. len : items[j] = x})

\* Number of x in the hands of the workers of W
RECURSIVE InHands(_, _)
InHands(x, W) ==
    IF W = {} THEN 0
    ELSE LET w == CHOOSE v \in W : TRUE
         IN  Count(hands[w], x) + InHands(x, W \ {w})

\* Products on the belt, in hands and received by the consumer
Products == OnBelt(PRODUCT) + InHands(PRODUCT, Workers) + counter[PRODUCT]

\* C18: at every point of a run, the number of A the producer has supplied
\* is the number of A on the belt, in workers' hands and received by the
\* consumer, plus the number of Products on the belt, in hands and received
\* by the consumer; and the same for B.
C18_Conservation ==
    \A x \in {A, B} :
        supplied[x] = OnBelt(x) + InHands(x, Workers) + counter[x] + Products

\* C18 witness: a finished run with a Product received by the consumer, a
\* Product in a worker's hands, a component in hand and one on the belt.
C18_Witness ==
    /\ pc = "done"
    /\ counter[PRODUCT] >= 1
    /\ InHands(PRODUCT, Workers) >= 1
    /\ InHands(A, Workers) + InHands(B, Workers) >= 1
    /\ OnBelt(A) + OnBelt(B) >= 1

\* C19: a worker calls station.take() only when the station is not busy and
\* gets the component it has just peeked; a busy station shows a worker only
\* Empty or a Product; so hands hold only A, B or Product, never the busy
\* signal None and never Empty.
C19_NoSentinelInHands ==
    /\ (last.op = "Worker.tick" /\ last.took # "none") =>
           /\ ~last.busy0
           /\ last.took = last.peeked
           /\ last.took \in {A, B}
           /\ last.took = LastShown
           /\ hands[LastWorker] = Append(last.hands0, last.took)
    /\ (last.op = "Worker.tick" /\ last.busy0) =>
           LastShown \in {EMPTY, PRODUCT}
    /\ \A w \in Workers :
           \A j \in 1 .. Len(hands[w]) : hands[w][j] \in {A, B, PRODUCT}

\* C19 witness: the bottom worker of a station took a component in a tick in
\* which the top worker, holding a Product, was refused by the occupied slot.
C19_Witness ==
    /\ PairDone
    /\ TopCall.put = "False"
    /\ BottomCall.took \in {A, B}
    /\ BottomCall.peeked = BottomCall.took
    /\ ~BottomCall.busy0

\* The tick in which Conveyor.tick drops off the end of the belt what was in
\* the slot of station d[2] in tick d[1]
DueTick(d) == d[1] + len - d[2]

\* Whether a successful put (the set due: tick and station of each) is due
\* at the consumer in tick t
DueAt(t) == \E d \in due : DueTick(d) = t

\* C20: no worker removes or overwrites a Product on the belt; a Product put
\* in the slot of station p in some tick is handed to the consumer by
\* Conveyor.tick exactly len - p ticks later, and the consumer gets a Product
\* at no other time; so the consumer's Product tally is at most the number of
\* successful puts, which is at most the number of A and of B supplied.
C20_ProductDelivery ==
    /\ last.op = "Worker.tick" =>
           /\ \A j \in 1 .. len :
                  last.items0[j] = PRODUCT => items[j] = PRODUCT
           /\ last.took # PRODUCT
    /\ last.op = "Conveyor.tick" =>
           ((last.ret = PRODUCT) <=> DueAt(i + 1))
    /\ \A d, e \in due : DueTick(d) = DueTick(e) => d = e
    /\ counter[PRODUCT] = Cardinality({d \in due : DueTick(d) <= TicksBegun})
    /\ counter[PRODUCT] <= Cardinality(due)
    /\ Cardinality(due) <= supplied[A]
    /\ Cardinality(due) <= supplied[B]

\* C20 witness: Conveyor.tick hands the consumer a Product that the top
\* worker of station 0 put on the belt len ticks before.
C20_Witness ==
    /\ last.op = "Conveyor.tick"
    /\ last.ret = PRODUCT
    /\ DueAt(i + 1)
    /\ counter[PRODUCT] = 1
    /\ put_at[<<"top", 0>>] = i + 1 - len

====
